---- MODULE Spec2Model ----
(***************************************************************************)
(* Model of src/inventory_system.py: the Inventory ledger (add_item,       *)
(* remove_item) and its JSON persistence (save, load).                     *)
(*                                                                         *)
(* Python values carry their run-time type, because the code branches on   *)
(* isinstance.  _data is a mapping from keys to values; the order in which *)
(* a dict is iterated is its insertion order, which the mapping does not   *)
(* record, so one fixed order stands for it.  A file holds JSON text,      *)
(* modelled by its grammar: absent, syntactically broken, an array, a      *)
(* scalar, or an object whose members are (string, literal) pairs in file  *)
(* order, duplicates allowed.                                              *)
(***************************************************************************)
EXTENDS Integers, Sequences, FiniteSets, TLC

VARIABLES
    data,     \* Inventory._data
    fs,       \* the files: filename -> JSON text
    op,       \* the last call and its arguments
    raised,   \* class of the exception the last call raised, or "none"
    site,     \* source line of the raise statement that ended the last call, or 0
    log,      \* levels of the log records the last call emitted
    pre,      \* _data when the last call began
    justSaved, \* when the last call is load and the call before it was a successful
              \* save: the file that was saved, otherwise ""
    ret,      \* what the last call returned
    out,      \* the lines the last call printed
    justAdded, \* when the last call is add_item(item, q2) with an integer q2 >= 0 or
              \* remove_item(item, q1), and the call before it was a successful
              \* add_item(item, q1): q1 and the quantity held before that add
    net       \* per item, the quantities added minus the quantities removed by the
              \* calls that succeeded since construction; a load starts the account
              \* again from what it loaded

vars == <<data, fs, op, raised, site, log, pre, justSaved, ret, out, justAdded, net>>

\* ---------------------------------------------------------------- bounds
MaxArg == 2        \* largest integer quantity passed to add_item / remove_item
MaxQty == 2        \* largest quantity add_item is driven to

\* -------------------------------------------------------- Python values
PyInt(n) == [t |-> "int", n |-> n, s |-> ""]
PyBool(b) == [t |-> "bool", n |-> b, s |-> ""]
\* PyFloat(n) stands for the float n + 0.5
PyFloat(n) == [t |-> "float", n |-> n, s |-> ""]
PyStr(s) == [t |-> "str", n |-> 0, s |-> s]
PyNone == [t |-> "NoneType", n |-> 0, s |-> ""]

isinstance_str(x) == x.t = "str"
\* bool is a subclass of int
isinstance_int(x) == x.t \in {"int", "bool"}

\* ---------------------------------------------------------------- dict
EmptyDict == [k \in {} |-> PyNone]
DictHas(d, k) == k \in DOMAIN d
DictGet(d, k, default) == IF DictHas(d, k) THEN d[k] ELSE default
DictSet(d, k, v) == [x \in (DOMAIN d) \cup {k} |-> IF x = k THEN v ELSE d[x]]
DictPop(d, k) == [x \in (DOMAIN d) \ {k} |-> d[x]]

RECURSIVE KeyOrder(_)
KeyOrder(S) ==
    IF S = {} THEN <<>>
    ELSE LET k == CHOOSE x \in S : TRUE
         IN <<k>> \o KeyOrder(S \ {k})

\* d.items(): the entries as a list
DictItems(d) == LET ks == KeyOrder(DOMAIN d)
                IN [i \in 1..Len(ks) |-> [k |-> ks[i], v |-> d[ks[i]]]]

\* ------------------------------------------------------ exception classes
Parent(c) ==
    CASE c = "InvalidItemError" -> "InventoryError"
      [] c = "ItemNotFoundError" -> "InventoryError"
      [] c = "InventoryError" -> "Exception"
      [] c = "JSONDecodeError" -> "ValueError"
      [] c = "ValueError" -> "Exception"
      [] c = "FileNotFoundError" -> "OSError"
      [] c = "PermissionError" -> "OSError"
      [] c = "OSError" -> "Exception"
      [] OTHER -> "BaseException"

RECURSIVE IsSubclass(_, _)
IsSubclass(c, h) ==
    IF c = h THEN TRUE
    ELSE IF c = "BaseException" THEN FALSE
    ELSE IsSubclass(Parent(c), h)

Result(d, r, l, lg) == [data |-> d, raised |-> r, site |-> l, log |-> lg]

\* ------------------------------------------------------------ add_item
\* add_item without the qty < 0 check
add_item_signed(d, item, qty) ==
    IF ~isinstance_str(item) \/ item.s = "" THEN Result(d, "InvalidItemError", 53, <<>>)
    ELSE IF ~isinstance_int(qty) THEN Result(d, "InvalidItemError", 55, <<>>)
    ELSE LET previous == DictGet(d, item, PyInt(0))
         IN Result(DictSet(d, item, PyInt(previous.n + qty.n)), "none", 0, <<"INFO">>)

\* add_item storing qty in place of previous + qty
add_item_overwrite(d, item, qty) ==
    IF ~isinstance_str(item) \/ item.s = "" THEN Result(d, "InvalidItemError", 53, <<>>)
    ELSE IF ~isinstance_int(qty) THEN Result(d, "InvalidItemError", 55, <<>>)
    ELSE IF qty.n < 0 THEN Result(d, "InvalidItemError", 58, <<>>)
    ELSE Result(DictSet(d, item, PyInt(qty.n)), "none", 0, <<"INFO">>)

add_item(d, item, qty) ==
    IF ~isinstance_str(item) \/ item.s = "" THEN Result(d, "InvalidItemError", 53, <<>>)
    ELSE IF ~isinstance_int(qty) THEN Result(d, "InvalidItemError", 55, <<>>)
    ELSE IF qty.n < 0 THEN Result(d, "InvalidItemError", 58, <<>>)
    ELSE LET previous == DictGet(d, item, PyInt(0))
         IN Result(DictSet(d, item, PyInt(previous.n + qty.n)), "none", 0, <<"INFO">>)

\* --------------------------------------------------------- remove_item
\* remove_item without the insufficient-quantity check
remove_item_unchecked(d, item, qty) ==
    IF ~isinstance_str(item) \/ item.s = "" THEN Result(d, "InvalidItemError", 75, <<>>)
    ELSE IF ~isinstance_int(qty) THEN Result(d, "InvalidItemError", 77, <<>>)
    ELSE IF qty.n <= 0 THEN Result(d, "InvalidItemError", 79, <<>>)
    ELSE IF ~DictHas(d, item) THEN Result(d, "ItemNotFoundError", 82, <<>>)
    ELSE LET remaining == PyInt(DictGet(d, item, PyInt(0)).n - qty.n)
             d1 == DictSet(d, item, remaining)
         IN Result(IF remaining.n = 0 THEN DictPop(d1, item) ELSE d1,
                   "none", 0, <<"INFO">>)

\* remove_item returning quietly when the item is missing
remove_item_silent(d, item, qty) ==
    IF ~isinstance_str(item) \/ item.s = "" THEN Result(d, "InvalidItemError", 75, <<>>)
    ELSE IF ~isinstance_int(qty) THEN Result(d, "InvalidItemError", 77, <<>>)
    ELSE IF qty.n <= 0 THEN Result(d, "InvalidItemError", 79, <<>>)
    ELSE IF ~DictHas(d, item) THEN Result(d, "none", 0, <<>>)
    ELSE IF DictGet(d, item, PyInt(0)).n < qty.n THEN Result(d, "InventoryError", 85, <<>>)
    ELSE LET remaining == PyInt(DictGet(d, item, PyInt(0)).n - qty.n)
             d1 == DictSet(d, item, remaining)
         IN Result(IF remaining.n = 0 THEN DictPop(d1, item) ELSE d1,
                   "none", 0, <<"INFO">>)

\* remove_item keeping the key when the quantity reaches 0
remove_item_keepzero(d, item, qty) ==
    IF ~isinstance_str(item) \/ item.s = "" THEN Result(d, "InvalidItemError", 75, <<>>)
    ELSE IF ~isinstance_int(qty) THEN Result(d, "InvalidItemError", 77, <<>>)
    ELSE IF qty.n <= 0 THEN Result(d, "InvalidItemError", 79, <<>>)
    ELSE IF ~DictHas(d, item) THEN Result(d, "ItemNotFoundError", 82, <<>>)
    ELSE IF DictGet(d, item, PyInt(0)).n < qty.n THEN Result(d, "InventoryError", 85, <<>>)
    ELSE Result(DictSet(d, item, PyInt(DictGet(d, item, PyInt(0)).n - qty.n)),
                "none", 0, <<"INFO">>)

remove_item(d, item, qty) ==
    IF ~isinstance_str(item) \/ item.s = "" THEN Result(d, "InvalidItemError", 75, <<>>)
    ELSE IF ~isinstance_int(qty) THEN Result(d, "InvalidItemError", 77, <<>>)
    ELSE IF qty.n <= 0 THEN Result(d, "InvalidItemError", 79, <<>>)
    ELSE IF ~DictHas(d, item) THEN Result(d, "ItemNotFoundError", 82, <<>>)
    ELSE IF DictGet(d, item, PyInt(0)).n < qty.n THEN Result(d, "InventoryError", 85, <<>>)
    ELSE LET remaining == PyInt(DictGet(d, item, PyInt(0)).n - qty.n)
             d1 == DictSet(d, item, remaining)
         IN Result(IF remaining.n = 0 THEN DictPop(d1, item) ELSE d1,
                   "none", 0, <<"INFO">>)

\* ------------------------------------------------------------ __init__
RECURSIVE construct(_, _)
construct(d, items) ==
    IF items = <<>> THEN Result(d, "none", 0, <<>>)
    ELSE LET r == add_item(d, Head(items).k, Head(items).v)
         IN IF r.raised # "none" THEN r ELSE construct(r.data, Tail(items))

\* ---------------------------------------------------------------- JSON
\* JSON literals: number (integer literal n), real (n.5), true, false, null, string
JNumber(n) == [j |-> "number", n |-> n, s |-> ""]
JReal(n) == [j |-> "real", n |-> n, s |-> ""]
JTrue == [j |-> "true", n |-> 0, s |-> ""]
JFalse == [j |-> "false", n |-> 0, s |-> ""]
JNull == [j |-> "null", n |-> 0, s |-> ""]
JString(s) == [j |-> "string", n |-> 0, s |-> s]

Member(name, lit) == [name |-> name, lit |-> lit]

Absent == [kind |-> "absent", members |-> <<>>]
Broken == [kind |-> "broken", members |-> <<>>]
JArray == [kind |-> "array", members |-> <<>>]
JScalar == [kind |-> "scalar", members |-> <<>>]
JObject(ms) == [kind |-> "object", members |-> ms]

\* json.dump: how the encoder writes a value
PyToJson(v) ==
    CASE v.t = "int" -> JNumber(v.n)
      [] v.t = "bool" -> IF v.n = 1 THEN JTrue ELSE JFalse
      [] v.t = "float" -> JReal(v.n)
      [] v.t = "str" -> JString(v.s)
      [] OTHER -> JNull

\* json.dump: how the encoder writes a dict key (non-str keys are coerced)
KeyText(k) ==
    CASE k.t = "str" -> k.s
      [] k.t = "int" -> ToString(k.n)
      [] k.t = "bool" -> IF k.n = 1 THEN "true" ELSE "false"
      [] k.t = "float" -> ToString(k.n) \o ".5"
      [] OTHER -> "null"

json_dump(d) ==
    LET items == DictItems(d)
    IN JObject([i \in 1..Len(items) |-> Member(KeyText(items[i].k), PyToJson(items[i].v))])

\* json.load: how the decoder reads a literal
JsonToPy(lit) ==
    CASE lit.j = "number" -> PyInt(lit.n)
      [] lit.j = "real" -> PyFloat(lit.n)
      [] lit.j = "true" -> PyBool(1)
      [] lit.j = "false" -> PyBool(0)
      [] lit.j = "string" -> PyStr(lit.s)
      [] OTHER -> PyNone

\* json.load of an object: the decoded entries in file order, a repeated
\* name keeping its first position and its last value
RECURSIVE ObjectItems(_, _)
ObjectItems(ms, acc) ==
    IF ms = <<>> THEN acc
    ELSE LET k == PyStr(Head(ms).name)
             v == JsonToPy(Head(ms).lit)
         IN IF \E i \in 1..Len(acc) : acc[i].k = k
            THEN ObjectItems(Tail(ms),
                             [i \in 1..Len(acc) |-> IF acc[i].k = k
                                                     THEN [k |-> k, v |-> v] ELSE acc[i]])
            ELSE ObjectItems(Tail(ms), Append(acc, [k |-> k, v |-> v]))

json_load(text) ==
    IF text.kind = "object"
    THEN [isdict |-> TRUE, items |-> ObjectItems(text.members, <<>>)]
    ELSE [isdict |-> FALSE, items |-> <<>>]

\* ---------------------------------------------------------------- save
\* io: "ok", "open_fails" (open raises OSError, file untouched) or
\* "write_fails" (open truncated the file and the write raised OSError,
\* leaving a strict prefix of the text, which is not valid JSON)
SaveResult(t, r, l, lg) == [text |-> t, raised |-> r, site |-> l, log |-> lg]

\* save logging a failed write without raising it again
save_swallow(d, old, io) ==
    CASE io = "open_fails" -> SaveResult(old, "none", 0, <<"ERROR">>)
      [] io = "write_fails" -> SaveResult(Broken, "none", 0, <<"ERROR">>)
      [] OTHER -> SaveResult(json_dump(d), "none", 0, <<"INFO">>)

save(d, old, io) ==
    CASE io = "open_fails" -> SaveResult(old, "PermissionError", 134, <<"ERROR">>)
      [] io = "write_fails" -> SaveResult(Broken, "OSError", 134, <<"ERROR">>)
      [] OTHER -> SaveResult(json_dump(d), "none", 0, <<"INFO">>)

\* ---------------------------------------------------------------- load
\* the validation loop dropping the entries whose quantity is 0
RECURSIVE sanitize_dropzero(_, _)
sanitize_dropzero(items, sanitized) ==
    IF items = <<>> THEN Result(sanitized, "none", 0, <<>>)
    ELSE LET k == Head(items).k
             v == Head(items).v
         IN IF ~isinstance_str(k) THEN Result(sanitized, "InventoryError", 147, <<>>)
            ELSE IF ~isinstance_int(v) \/ v.n < 0
                 THEN Result(sanitized, "InventoryError", 149, <<>>)
            ELSE IF v.n = 0 THEN sanitize_dropzero(Tail(items), sanitized)
            ELSE sanitize_dropzero(Tail(items), DictSet(sanitized, k, v))

\* the validation loop of load over data.items()
RECURSIVE sanitize(_, _)
sanitize(items, sanitized) ==
    IF items = <<>> THEN Result(sanitized, "none", 0, <<>>)
    ELSE LET k == Head(items).k
             v == Head(items).v
         IN IF ~isinstance_str(k) THEN Result(sanitized, "InventoryError", 147, <<>>)
            ELSE IF ~isinstance_int(v) \/ v.n < 0
                 THEN Result(sanitized, "InventoryError", 149, <<>>)
            ELSE sanitize(Tail(items), DictSet(sanitized, k, v))

\* load emptying the inventory when the file is not found
load_startempty(d, text, io) ==
    IF text.kind = "absent" THEN Result(EmptyDict, "none", 0, <<"WARNING">>)
    ELSE IF io = "read_fails" THEN Result(d, "PermissionError", 139, <<>>)
    ELSE IF text.kind = "broken" THEN Result(d, "JSONDecodeError", 161, <<"ERROR">>)
    ELSE LET parsed == json_load(text)
         IN IF ~parsed.isdict THEN Result(d, "InventoryError", 142, <<>>)
            ELSE LET r == sanitize(parsed.items, EmptyDict)
                 IN IF r.raised # "none" THEN Result(d, r.raised, r.site, <<>>)
                    ELSE Result(r.data, "none", 0, <<"INFO">>)

\* load validating straight into self._data instead of a fresh dict
load_inplace(d, text, io) ==
    IF text.kind = "absent" THEN Result(d, "none", 0, <<"WARNING">>)
    ELSE IF io = "read_fails" THEN Result(d, "PermissionError", 139, <<>>)
    ELSE IF text.kind = "broken" THEN Result(d, "JSONDecodeError", 161, <<"ERROR">>)
    ELSE LET parsed == json_load(text)
         IN IF ~parsed.isdict THEN Result(d, "InventoryError", 142, <<>>)
            ELSE LET r == sanitize(parsed.items, d)
                 IN IF r.raised # "none" THEN Result(r.data, r.raised, r.site, <<>>)
                    ELSE Result(r.data, "none", 0, <<"INFO">>)

\* io: "ok" or "read_fails" (open of an existing file raises an OSError
\* other than FileNotFoundError, which no except clause of load handles)
load(d, text, io) ==
    IF text.kind = "absent" THEN Result(d, "none", 0, <<"WARNING">>)
    ELSE IF io = "read_fails" THEN Result(d, "PermissionError", 139, <<>>)
    ELSE IF text.kind = "broken" THEN Result(d, "JSONDecodeError", 161, <<"ERROR">>)
    ELSE LET parsed == json_load(text)
         IN IF ~parsed.isdict THEN Result(d, "InventoryError", 142, <<>>)
            ELSE LET r == sanitize(parsed.items, EmptyDict)
                 IN IF r.raised # "none" THEN Result(d, r.raised, r.site, <<>>)
                    ELSE Result(r.data, "none", 0, <<"INFO">>)

\* ------------------------------------------------------------- queries
\* a return value: an int (val), a list of item names (list) or a dict (dict)
Ret(val, list, dict) == [val |-> val, list |-> list, dict |-> dict]
NoRet == Ret(PyNone, <<>>, EmptyDict)
RetInt(v) == Ret(v, <<>>, EmptyDict)
RetList(l) == Ret(PyNone, l, EmptyDict)
RetDict(d) == Ret(PyNone, <<>>, d)

QueryResult(d, r, l, rt, o) ==
    [data |-> d, raised |-> r, site |-> l, log |-> <<>>, ret |-> rt, out |-> o]

\* get_qty creating the key it is asked about (setdefault instead of get)
get_qty_setdefault(d, item) ==
    IF ~isinstance_str(item) \/ item.s = "" THEN QueryResult(d, "InvalidItemError", 104, NoRet, <<>>)
    ELSE QueryResult(IF DictHas(d, item) THEN d ELSE DictSet(d, item, PyInt(0)),
                     "none", 0, RetInt(DictGet(d, item, PyInt(0))), <<>>)

get_qty(d, item) ==
    IF ~isinstance_str(item) \/ item.s = "" THEN QueryResult(d, "InvalidItemError", 104, NoRet, <<>>)
    ELSE QueryResult(d, "none", 0, RetInt(DictGet(d, item, PyInt(0))), <<>>)

IsBelow(d, k, threshold) == d[k].n < threshold.n
IsAtMost(d, k, threshold) == d[k].n <= threshold.n

\* check_low_items comparing with <= instead of <
check_low_items_le(d, threshold) ==
    IF ~isinstance_int(threshold) \/ threshold.n < 0
    THEN QueryResult(d, "InvalidItemError", 110, NoRet, <<>>)
    ELSE QueryResult(d, "none", 0,
                     RetList(SelectSeq(KeyOrder(DOMAIN d), LAMBDA k : IsAtMost(d, k, threshold))),
                     <<>>)

check_low_items(d, threshold) ==
    IF ~isinstance_int(threshold) \/ threshold.n < 0
    THEN QueryResult(d, "InvalidItemError", 110, NoRet, <<>>)
    ELSE QueryResult(d, "none", 0,
                     RetList(SelectSeq(KeyOrder(DOMAIN d), LAMBDA k : IsBelow(d, k, threshold))),
                     <<>>)

to_dict(d) == QueryResult(d, "none", 0, RetDict(d), <<>>)

\* the order of str on the item names of the model ("" < "apple" < "banana")
NameRank(k) ==
    CASE k.s = "" -> 0
      [] k.s = "apple" -> 1
      [] k.s = "banana" -> 2
      [] OTHER -> 3

\* sorted(): insertion of an entry into a list sorted by name (the names of a
\* dict are distinct, so the quantities never decide)
RECURSIVE InsertSorted(_, _)
InsertSorted(e, sorted) ==
    IF sorted = <<>> THEN <<e>>
    ELSE IF NameRank(e.k) < NameRank(Head(sorted).k) THEN <<e>> \o sorted
    ELSE <<Head(sorted)>> \o InsertSorted(e, Tail(sorted))

RECURSIVE InsertSortedReverse(_, _)
InsertSortedReverse(e, sorted) ==
    IF sorted = <<>> THEN <<e>>
    ELSE IF NameRank(e.k) > NameRank(Head(sorted).k) THEN <<e>> \o sorted
    ELSE <<Head(sorted)>> \o InsertSortedReverse(e, Tail(sorted))

RECURSIVE SortedItems(_)
SortedItems(items) ==
    IF items = <<>> THEN <<>>
    ELSE InsertSorted(Head(items), SortedItems(Tail(items)))

RECURSIVE SortedItemsReverse(_)
SortedItemsReverse(items) ==
    IF items = <<>> THEN <<>>
    ELSE InsertSortedReverse(Head(items), SortedItemsReverse(Tail(items)))

\* a printed line: its fixed text, or the name and quantity of "  name -> qty"
Line(text, name, qty) == [text |-> text, name |-> name, qty |-> qty]
HeaderLine == Line("Items Report", PyNone, PyNone)
NoItemsLine == Line("  (no items)", PyNone, PyNone)
ItemLine(e) == Line("  name -> qty", e.k, e.v)

\* print_report listing the items in descending order of name
print_report_reverse(d) ==
    IF d = EmptyDict THEN QueryResult(d, "none", 0, NoRet, <<HeaderLine, NoItemsLine>>)
    ELSE LET items == SortedItemsReverse(DictItems(d))
         IN QueryResult(d, "none", 0, NoRet,
                        <<HeaderLine>> \o [i \in 1..Len(items) |-> ItemLine(items[i])])

print_report(d) ==
    IF d = EmptyDict THEN QueryResult(d, "none", 0, NoRet, <<HeaderLine, NoItemsLine>>)
    ELSE LET items == SortedItems(DictItems(d))
         IN QueryResult(d, "none", 0, NoRet,
                        <<HeaderLine>> \o [i \in 1..Len(items) |-> ItemLine(items[i])])

\* ------------------------------------------------------------- inputs
Filenames == {"inventory.json"}

ItemArgs == {PyStr("apple"), PyStr("banana"), PyStr(""), PyInt(1)}

QtyArgs == {PyInt(n) : n \in -1..MaxArg} \cup {PyBool(1), PyFloat(1)}

\* the argument pairs of add_item and remove_item: every quantity with a
\* well-formed name, a good and a bad quantity with a malformed one
ArgPairs ==
    {a \in ItemArgs \X QtyArgs :
        \/ isinstance_str(a[1]) /\ a[1].s # ""
        \/ a[2] \in {PyInt(1), PyInt(-1)}}

DefaultThreshold == 5

ThresholdArgs ==
    {PyInt(n) : n \in -1..(MaxQty + 1)} \cup {PyInt(DefaultThreshold), PyFloat(1)}

\* initial mappings handed to the constructor
InitialMappings ==
    UNION {[ks -> {PyInt(-1), PyInt(0), PyInt(1)}] : ks \in SUBSET {PyStr("apple"), PyStr("banana")}}

\* what a file may hold before the program first touches it
FileTexts ==
    { Absent, Broken, JArray, JScalar,
      JObject(<<>>),
      JObject(<<Member("apple", JNumber(2))>>),
      JObject(<<Member("apple", JNumber(0))>>),
      JObject(<<Member("", JNumber(1))>>),
      JObject(<<Member("apple", JNumber(-1))>>),
      JObject(<<Member("apple", JReal(1))>>),
      JObject(<<Member("apple", JTrue)>>),
      JObject(<<Member("apple", JString("2"))>>),
      JObject(<<Member("banana", JNumber(1)), Member("apple", JNull)>>),
      JObject(<<Member("banana", JNumber(1)), Member("apple", JNumber(-1))>>),
      JObject(<<Member("banana", JNumber(2)), Member("apple", JNumber(1))>>),
      JObject(<<Member("apple", JNumber(1)), Member("apple", JNumber(2))>>) }

NoCall == [name |-> "__init__", item |-> PyNone, qty |-> PyNone, filename |-> "", io |-> ""]
Call(name, item, qty, filename, io) ==
    [name |-> name, item |-> item, qty |-> qty, filename |-> filename, io |-> io]
Saved == IF op.name = "save" /\ raised = "none" THEN op.filename ELSE ""

NoAdd == [item |-> PyNone, qty |-> PyNone, was |-> PyNone]
Added(item) ==
    IF op.name = "add_item" /\ raised = "none" /\ op.item = item
    THEN [item |-> op.item, qty |-> op.qty, was |-> DictGet(pre, op.item, PyInt(0))]
    ELSE NoAdd

\* the account of net: the item names add_item accepts
NetNames == {item \in ItemArgs : isinstance_str(item) /\ item.s # ""}
Account(n, item, r, amount) ==
    IF r.raised = "none" THEN [n EXCEPT ![item] = @ + amount] ELSE n
Restart(d) == [item \in NetNames |-> DictGet(d, item, PyInt(0)).n]

\* --------------------------------------------------------------- Init
\* an Inventory whose constructor returned, next to files of any content
Init ==
    /\ \E initial \in InitialMappings :
          LET r == construct(EmptyDict, DictItems(initial))
          IN /\ r.raised = "none"
             /\ data = r.data
             /\ net = [item \in NetNames |->
                           IF item \in DOMAIN initial THEN initial[item].n ELSE 0]
    /\ fs \in [Filenames -> FileTexts]
    /\ op = NoCall
    /\ raised = "none"
    /\ site = 0
    /\ log = <<>>
    /\ pre = EmptyDict
    /\ justSaved = ""
    /\ ret = NoRet
    /\ out = <<>>
    /\ justAdded = NoAdd

\* ------------------------------------------------------------ actions
AddItem ==
    \E a \in ArgPairs :
        LET item == a[1]
            qty == a[2]
            r == add_item(data, item, qty)
        IN /\ \A k \in DOMAIN r.data : r.data[k].n <= MaxQty
           /\ data' = r.data
           /\ raised' = r.raised
           /\ site' = r.site
           /\ log' = r.log
           /\ op' = Call("add_item", item, qty, "", "")
           /\ pre' = data
           /\ justSaved' = ""
           /\ justAdded' = IF isinstance_int(qty) /\ qty.n >= 0 THEN Added(item) ELSE NoAdd
           /\ net' = Account(net, item, r, qty.n)
           /\ ret' = NoRet
           /\ out' = <<>>
           /\ UNCHANGED fs

RemoveItem ==
    \E a \in ArgPairs :
        LET item == a[1]
            qty == a[2]
            r == remove_item(data, item, qty)
        IN /\ data' = r.data
           /\ raised' = r.raised
           /\ site' = r.site
           /\ log' = r.log
           /\ op' = Call("remove_item", item, qty, "", "")
           /\ pre' = data
           /\ justSaved' = ""
           /\ justAdded' = IF Added(item).qty = qty THEN Added(item) ELSE NoAdd
           /\ net' = Account(net, item, r, 0 - qty.n)
           /\ ret' = NoRet
           /\ out' = <<>>
           /\ UNCHANGED fs

Save ==
    \E filename \in Filenames, io \in {"ok", "open_fails", "write_fails"} :
        LET r == save(data, fs[filename], io)
        IN /\ fs' = [fs EXCEPT ![filename] = r.text]
           /\ raised' = r.raised
           /\ site' = r.site
           /\ log' = r.log
           /\ op' = Call("save", PyNone, PyNone, filename, io)
           /\ pre' = data
           /\ justSaved' = ""
           /\ justAdded' = NoAdd
           /\ ret' = NoRet
           /\ out' = <<>>
           /\ UNCHANGED <<data, net>>

Load ==
    \E filename \in Filenames, io \in {"ok", "read_fails"} :
        LET r == load(data, fs[filename], io)
        IN /\ data' = r.data
           /\ raised' = r.raised
           /\ site' = r.site
           /\ log' = r.log
           /\ op' = Call("load", PyNone, PyNone, filename, io)
           /\ pre' = data
           /\ justSaved' = Saved
           /\ justAdded' = NoAdd
           /\ net' = Restart(r.data)
           /\ ret' = NoRet
           /\ out' = <<>>
           /\ UNCHANGED fs

\* a call of a method that reads the ledger
Query(call, r) ==
    /\ data' = r.data
    /\ raised' = r.raised
    /\ site' = r.site
    /\ log' = r.log
    /\ ret' = r.ret
    /\ out' = r.out
    /\ op' = call
    /\ pre' = data
    /\ justSaved' = ""
    /\ justAdded' = NoAdd
    /\ UNCHANGED <<fs, net>>

GetQty ==
    \E item \in ItemArgs : Query(Call("get_qty", item, PyNone, "", ""), get_qty(data, item))

CheckLowItems ==
    \E threshold \in ThresholdArgs :
        Query(Call("check_low_items", PyNone, threshold, "", ""),
              check_low_items(data, threshold))

ToDict == Query(Call("to_dict", PyNone, PyNone, "", ""), to_dict(data))

PrintReport == Query(Call("print_report", PyNone, PyNone, "", ""), print_report(data))

Next ==
    \/ AddItem
    \/ RemoveItem
    \/ Save
    \/ Load
    \/ GetQty
    \/ CheckLowItems
    \/ ToDict
    \/ PrintReport

Spec == Init /\ [][Next]_vars

\* the ledger driven by add_item and remove_item alone
NextNoLoad == AddItem \/ RemoveItem

SpecNoLoad == Init /\ [][NextNoLoad]_vars

\* ================================================================ claims

ValidName(item) == isinstance_str(item) /\ item.s # ""

\* C1: in every state reached from construction by add_item and remove_item
\* alone, no key is stored with quantity 0.
C1_NoZeroQuantity == \A k \in DOMAIN data : data[k].n # 0

\* C2: after any sequence of add_item, remove_item, save and load, every key
\* is a non-empty string and every value is an integer >= 0.
C2_KeysAndValuesValid ==
    \A k \in DOMAIN data :
        /\ isinstance_str(k) /\ k.s # ""
        /\ isinstance_int(data[k]) /\ data[k].n >= 0

\* C3: a load of the file that the call just before saved successfully leaves
\* the mapping equal to the mapping before the save (which is the mapping the
\* load began with, save changing nothing in memory).
C3_RoundTrip ==
    (op.name = "load" /\ op.io = "ok" /\ justSaved = op.filename)
        => raised = "none" /\ data = pre

C3_Witness ==
    /\ op.name = "load" /\ op.io = "ok" /\ justSaved = op.filename
    /\ raised = "none"
    /\ DOMAIN data = {PyStr("apple"), PyStr("banana")}
    /\ data[PyStr("apple")].n = 0
    /\ data[PyStr("banana")].n > 0

\* C4: remove_item of a stored item with an integer quantity greater than the
\* quantity held ends in the insufficient-quantity raise (line 85, class
\* InventoryError as the docstring of remove_item names it) and leaves the
\* mapping as it was.
C4_InsufficientQuantity ==
    (/\ op.name = "remove_item"
     /\ ValidName(op.item) /\ isinstance_int(op.qty)
     /\ DictHas(pre, op.item)
     /\ op.qty.n > DictGet(pre, op.item, PyInt(0)).n)
        => raised = "InventoryError" /\ site = 85 /\ data = pre

C4_Witness ==
    /\ op.name = "remove_item"
    /\ op.item = PyStr("apple") /\ op.qty = PyInt(2)
    /\ DOMAIN pre = {PyStr("apple"), PyStr("banana")}
    /\ pre[PyStr("apple")].n = 1
    /\ raised = "InventoryError" /\ site = 85
    /\ data = pre

\* C5 as stated: remove_item of an item that is not stored fails with
\* ItemNotFoundError whatever the quantity argument, the mapping unchanged.
C5_AbsentAnyQuantity ==
    (op.name = "remove_item" /\ ValidName(op.item) /\ ~DictHas(pre, op.item))
        => raised = "ItemNotFoundError" /\ data = pre

\* C5 amended: remove_item of an item that is not stored always fails and
\* leaves the mapping unchanged: with ItemNotFoundError when the quantity is a
\* positive integer, with InvalidItemError for any other quantity argument.
C5_AbsentFails ==
    (op.name = "remove_item" /\ ValidName(op.item) /\ ~DictHas(pre, op.item))
        => /\ data = pre
           /\ raised # "none"
           /\ IF isinstance_int(op.qty) /\ op.qty.n > 0
              THEN raised = "ItemNotFoundError" /\ site = 82
              ELSE raised = "InvalidItemError"

C5_Witness ==
    /\ op.name = "remove_item"
    /\ op.item = PyStr("banana") /\ op.qty = PyInt(1)
    /\ DOMAIN pre = {PyStr("apple")}
    /\ raised = "ItemNotFoundError"
    /\ data = pre

\* C6: add_item with a negative quantity, a non-integer quantity, or an empty
\* or non-text item name fails with InvalidItemError and leaves the mapping
\* unchanged.
C6_AddRejectsInvalid ==
    (/\ op.name = "add_item"
     /\ \/ ~isinstance_str(op.item)
        \/ op.item.s = ""
        \/ ~isinstance_int(op.qty)
        \/ op.qty.n < 0)
        => raised = "InvalidItemError" /\ data = pre

C6_Witness ==
    /\ op.name = "add_item"
    /\ op.item = PyStr("apple") /\ op.qty = PyInt(-1)
    /\ DictHas(pre, PyStr("apple")) /\ pre[PyStr("apple")].n = 1
    /\ raised = "InvalidItemError"
    /\ data = pre

\* the file's JSON is not an object, or an entry of the object fails the
\* key/value validation
BadEntry(e) == ~isinstance_str(e.k) \/ ~isinstance_int(e.v) \/ e.v.n < 0
StructurallyInvalid(text) ==
    \/ text.kind \in {"array", "scalar"}
    \/ /\ text.kind = "object"
       /\ \E i \in 1..Len(json_load(text).items) : BadEntry(json_load(text).items[i])

\* C7: load of a file whose JSON is not an object, or holds a negative or
\* non-integer value or a non-string key, fails with InvalidItemError (the
\* class add_item and remove_item raise for malformed arguments) and leaves
\* the mapping unchanged.
C7_LoadInvalidInput ==
    (op.name = "load" /\ op.io = "ok" /\ StructurallyInvalid(fs[op.filename]))
        => raised = "InvalidItemError" /\ data = pre

\* the error kind each raise statement stands for
KindOfSite(l) ==
    CASE l \in {53, 55, 58, 75, 77, 79, 142, 147, 149} -> "InvalidInput"
      [] l = 82 -> "ItemNotFound"
      [] l = 85 -> "InsufficientQuantity"
      [] l = 161 -> "ParseError"
      [] OTHER -> "IOFailure"

\* the error kind a caller's except clauses recognise in an exception: the
\* kind whose own class it is an instance of, "generic" when it is an instance
\* of none
KindCaught(c) ==
    CASE IsSubclass(c, "InvalidItemError") -> "InvalidInput"
      [] IsSubclass(c, "ItemNotFoundError") -> "ItemNotFound"
      [] IsSubclass(c, "JSONDecodeError") -> "ParseError"
      [] IsSubclass(c, "OSError") -> "IOFailure"
      [] OTHER -> "generic"

\* C8: every failure reaches the caller as an exception of its own kind (one
\* of the five pairwise distinct kinds), never as a generic error.
C8_DistinctKinds ==
    raised # "none" => KindCaught(raised) = KindOfSite(site)

FileMapping(text) ==
    LET ms == text.members
        last(name) == CHOOSE i \in 1..Len(ms) :
                          /\ ms[i].name = name
                          /\ \A j \in (i + 1)..Len(ms) : ms[j].name # name
    IN [k \in {PyStr(ms[i].name) : i \in 1..Len(ms)} |-> JsonToPy(ms[last(k.s)].lit)]

\* C10: after a load the mapping is exactly what the file says when the load
\* read a file and returned, and exactly the mapping before the call otherwise.
C10_LoadAllOrNothing ==
    op.name = "load"
        => IF raised = "none" /\ fs[op.filename].kind # "absent"
           THEN fs[op.filename].kind = "object" /\ data = FileMapping(fs[op.filename])
           ELSE data = pre

\* a validation failure after an entry was accepted, the old mapping kept
C10_Witness ==
    /\ op.name = "load" /\ raised = "InventoryError" /\ site = 149
    /\ Len(fs[op.filename].members) = 2
    /\ ~BadEntry(json_load(fs[op.filename]).items[1])
    /\ DOMAIN pre = {PyStr("apple")}
    /\ data = pre

\* the item names whose stored quantity is below the threshold
LowNames(d, threshold) == {k \in DOMAIN d : d[k].n < threshold.n}

\* C11: for every integer threshold >= 0, check_low_items returns exactly the
\* item names whose stored quantity is strictly below the threshold, each
\* once; with threshold 0 it returns nothing.
C11_ListLow ==
    (op.name = "check_low_items" /\ isinstance_int(op.qty) /\ op.qty.n >= 0)
        => /\ raised = "none"
           /\ {ret.list[i] : i \in 1..Len(ret.list)} = LowNames(data, op.qty)
           /\ Len(ret.list) = Cardinality(LowNames(data, op.qty))
           /\ op.qty.n = 0 => ret.list = <<>>

C11_Witness ==
    /\ op.name = "check_low_items" /\ op.qty = PyInt(2)
    /\ DOMAIN data = {PyStr("apple"), PyStr("banana")}
    /\ data[PyStr("apple")].n = 2
    /\ data[PyStr("banana")].n = 0
    /\ ret.list = <<PyStr("banana")>>

\* the last two calls were add_item(item, q) then remove_item(item, q), q > 0
AddThenRemove ==
    op.name = "remove_item" /\ justAdded # NoAdd /\ justAdded.qty.n > 0

\* C12 as stated: after add_item(item, q) then remove_item(item, q) with
\* q > 0, both calls succeeded and the item is not stored.
C12_AddRemoveAbsent ==
    AddThenRemove => raised = "none" /\ ~DictHas(data, op.item)

\* C12 amended: after add_item(item, q) then remove_item(item, q) with q > 0,
\* both calls succeeded and the item holds what it held before the add; it is
\* not stored when it held nothing before, and never stored with quantity 0.
C12_AddRemoveRestores ==
    AddThenRemove
        => /\ raised = "none"
           /\ DictGet(data, op.item, PyInt(0)).n = justAdded.was.n
           /\ justAdded.was.n = 0 => ~DictHas(data, op.item)

C12_Witness ==
    /\ AddThenRemove
    /\ op.item = PyStr("apple") /\ op.qty = PyInt(2)
    /\ justAdded.was.n = 0
    /\ raised = "none"
    /\ DOMAIN pre = {PyStr("apple"), PyStr("banana")}
    /\ DOMAIN data = {PyStr("banana")}

\* the last two calls were add_item(item, q1) then add_item(item, q2),
\* q1 and q2 integers >= 0
AddThenAdd == op.name = "add_item" /\ justAdded # NoAdd

\* C13 as stated: after add_item(item, q1) then add_item(item, q2) the
\* quantity of item is q1 + q2.
C13_AddAddSum ==
    AddThenAdd
        => /\ raised = "none"
           /\ DictGet(data, op.item, PyInt(0)).n = justAdded.qty.n + op.qty.n

\* C13 amended: after add_item(item, q1) then add_item(item, q2) the quantity
\* of item is what it held before the first add (0 if it was not stored) plus
\* q1 + q2.
C13_AddAddAccumulates ==
    AddThenAdd
        => /\ raised = "none"
           /\ DictHas(data, op.item)
           /\ data[op.item].n = justAdded.was.n + justAdded.qty.n + op.qty.n

C13_Witness ==
    /\ AddThenAdd
    /\ op.item = PyStr("apple") /\ op.qty = PyInt(1)
    /\ justAdded.qty = PyInt(1) /\ justAdded.was.n = 0
    /\ raised = "none"
    /\ data[PyStr("apple")] = PyInt(2)

\* C14: a successful add_item, a successful remove_item, and a failing load or
\* save each emit exactly one log record.
C14_OneLogRecord ==
    (\/ op.name \in {"add_item", "remove_item"} /\ raised = "none"
     \/ op.name \in {"load", "save"} /\ raised # "none")
        => Len(log) = 1

\* C15: save leaves the mapping as it was, and a save whose open or write
\* failed raises an OSError to the caller.
C15_SaveFailurePropagates ==
    op.name = "save"
        => /\ data = pre
           /\ op.io # "ok" => raised # "none" /\ IsSubclass(raised, "OSError")

C15_Witness ==
    /\ op.name = "save" /\ op.io = "write_fails"
    /\ raised = "OSError"
    /\ fs[op.filename] = Broken
    /\ DOMAIN data = {PyStr("apple"), PyStr("banana")}
    /\ data = pre

\* C16: print_report prints the header, then either the placeholder (empty
\* ledger) or one line per stored item with its quantity, in strictly
\* ascending order of name; it leaves the mapping as it was.
C16_Report ==
    op.name = "print_report"
        => /\ data = pre
           /\ raised = "none"
           /\ Len(out) >= 2 /\ out[1] = HeaderLine
           /\ IF DOMAIN data = {}
              THEN out = <<HeaderLine, NoItemsLine>>
              ELSE /\ Len(out) = 1 + Cardinality(DOMAIN data)
                   /\ \A i \in 2..Len(out) :
                         /\ out[i].text = "  name -> qty"
                         /\ out[i].name \in DOMAIN data
                         /\ out[i].qty = data[out[i].name]
                   /\ \A i, j \in 2..Len(out) :
                         i < j => NameRank(out[i].name) < NameRank(out[j].name)

C16_Witness ==
    /\ op.name = "print_report"
    /\ data = (PyStr("banana") :> PyInt(1)) @@ (PyStr("apple") :> PyInt(2))
    /\ Len(out) = 3
    /\ out[2].name = PyStr("apple") /\ out[2].qty = PyInt(2)
    /\ out[3].name = PyStr("banana") /\ out[3].qty = PyInt(1)

\* C17: driven by add_item and remove_item alone, the quantity stored for an
\* item (0 when it is not stored) is the sum of the quantities of its
\* successful adds minus that of its successful removes.
C17_Conservation ==
    \A item \in NetNames : DictGet(data, item, PyInt(0)).n = net[item]

C17_Witness ==
    /\ op.name = "remove_item" /\ op.item = PyStr("apple") /\ op.qty = PyInt(1)
    /\ raised = "none"
    /\ pre[PyStr("apple")].n = 2
    /\ net[PyStr("apple")] = 1
    /\ net[PyStr("banana")] = 1
    /\ data[PyStr("apple")].n = 1

\* C18: a successful add_item or remove_item leaves the presence and quantity
\* of every other item unchanged; get_qty, check_low_items and to_dict leave
\* the whole mapping unchanged, get_qty of an item that is not stored included.
C18_Frame ==
    /\ (op.name \in {"add_item", "remove_item"} /\ raised = "none")
          => \A k \in ((DOMAIN pre) \cup (DOMAIN data)) \ {op.item} :
                 k \in DOMAIN pre /\ k \in DOMAIN data /\ data[k] = pre[k]
    /\ op.name \in {"get_qty", "check_low_items", "to_dict"} => data = pre

C18_Witness ==
    /\ op.name = "get_qty" /\ op.item = PyStr("banana")
    /\ raised = "none"
    /\ ret.val = PyInt(0)
    /\ DOMAIN pre = {PyStr("apple")}
    /\ data = pre

====
